---- MODULE Spec2Model ----
(***************************************************************************)
(* The two execution-backend hooks of the R/Python web IDE, usePyodide and *)
(* useWebR, as one state machine.  The hooks share no state (each module   *)
(* has its own interpreter handle and its own plotIdCounter), so a         *)
(* behaviour exercises one of them: `backend` is fixed by Init and the     *)
(* hook state (isLoading, consoleOutput, environment, tableData, plots)    *)
(* is that hook's.  Every `await` of the source is a step boundary: an     *)
(* action is one interpreter call settling together with the JavaScript    *)
(* that runs up to the next await.                                         *)
(*                                                                         *)
(* The hooks are the subject of six specifications:                        *)
(*   SpecBoot  initialize re-entered while a boot is in flight, with       *)
(*             runCode calls arriving at any point of the boot;            *)
(*   SpecSeq   one mount, then runCode calls one after the other, with     *)
(*             clears and background stream output in between;             *)
(*   Spec      one mount, then runCode calls that may overlap;             *)
(*   SpecView  one mount, then runs that bind tabular objects, calls of    *)
(*             viewObjectByName and clears, one after the other;           *)
(*   SpecEnv   one mount, then runs that bind and unbind globals, one      *)
(*             after the other;                                            *)
(*   SpecPlots one mount, then drawing runs that may overlap, calls of     *)
(*             viewPlotByName and of clearPlots.                           *)
(*                                                                         *)
(* SpecApp is the session that App, EditorPanel and the two ConsolePanels  *)
(* keep around the hooks: the buffers, the command history with its        *)
(* cursor and draft, the language, and the runCode calls the inputs make.  *)
(***************************************************************************)
EXTENDS Integers, Sequences, FiniteSets, TLC

\* ------------------------------------------------------------------ bounds
MaxInitCalls == 2     \* initialize invocations (the mount effect, re-entered once)
MaxInFlight == 2      \* runCode calls in flight at once (Spec)
MaxCalls == 2         \* runCode calls in a behaviour of Spec
MaxBootCalls == 1     \* runCode calls in a behaviour of SpecBoot
MaxSeqCalls == 2      \* runCode calls in a behaviour of SpecSeq
MaxClears == 1        \* clearConsole/clearTable/clearPlots calls in a behaviour
MaxStreamChunks == 1  \* chunks the WebR stdout/stderr stream readers deliver
MaxViews == 2         \* viewObjectByName calls in a behaviour of SpecView
MaxViewCalls == 1     \* runCode calls in a behaviour of SpecView
MaxPlotCalls == 2     \* runCode calls in a behaviour of SpecPlots
MaxPlotViews == 1     \* viewPlotByName calls in a behaviour of SpecPlots
MaxSubmits == 4       \* submit attempts in a behaviour of SpecApp
MaxRecall == 4        \* consecutive history steps in one direction
MaxEdits == 2         \* edits of the other buffer between two language switches
MaxEnvCalls == 3      \* runCode calls in a behaviour of SpecEnv

InitIds == 1..MaxInitCalls
RunIds == 1..MaxInFlight
ViewIds == 1..MaxViews

\* ------------------------------------------------------------------ inputs
\* User code handed to runCode, by what the interpreter does with it.
Programs == {"print", "plot2", "redraw", "plot_raise"}

\* Figures the program opens with a fresh plt.figure() / plot.new().
NewFigs(code) == CASE code = "plot2" -> 2
                   [] code = "frames" -> 1
                   [] code = "plot_raise" -> 1
                   [] OTHER -> 0

\* The program draws on the current figure (plt.plot: gcf() opens one if none).
Redraws(code) == code = "redraw"

\* The interpreter call ends by throwing (a Python exception, an R error).
Throws(code) == code = "plot_raise"

\* What the program writes to the streams, in order: <<stream, text>>.
Output(code) == IF code = "print"
                  THEN << <<"stdout", "hello">>, <<"stderr", "">> >>
                  ELSE << >>

\* Top-level bindings the program leaves in the global scope.
Defines(code) == CASE code = "print" -> {"x"}
                   [] code = "plot2" -> {"df"}
                   [] code = "frames" -> {"df", "dup", "hash", "s"}
                   [] code = "odd" -> {"odd"}
                   [] OTHER -> {}

\* Top-level bindings the program removes from the global scope:
\* globals().pop('x', None), suppressWarnings(rm(x)).
Removes(code) == IF code = "unbind" THEN {"x"} ELSE {}

\* The global scope after the program ran.
GlobalsAfter(code, g) == (g \ Removes(code)) \cup Defines(code)

\* The binding "odd" is one the reflection of updateEnvironment cannot
\* describe.  In Python it is a global whose key is not a string
\* (globals()[0] = 1): `name.startswith('_')` of the reflection script raises
\* outside its try block.  In R it is a binding whose details node comes back
\* from toJs without the `str` element.
Unreflectable == {"odd"}

\* The program imports pandas/matplotlib (the preloaded packages).
NeedsPackages(code) == code \notin {"print", "unbind", "odd"}

\* The tabular objects the programs bind, by name: column labels, index
\* labels and cells by row.  "dup" repeats a column label, "hash" has a column
\* labelled "#".
FrameNames == {"df", "dup", "hash"}

Frame(n) ==
  CASE n = "df" -> [columns |-> <<"a", "b">>, index |-> <<0, 1>>,
                    data |-> << <<1, 2>>, <<3, 4>> >>]
    [] n = "dup" -> [columns |-> <<"a", "a">>, index |-> <<0>>, data |-> << <<5, 6>> >>]
    [] OTHER -> [columns |-> <<"#", "a">>, index |-> <<0>>, data |-> << <<7, 8>> >>]

\* hasattr(value, 'to_json'): the data frames and the pandas Series "s".
HasToJson(n) == n \in FrameNames \cup {"s"}

\* JSON.parse of value.to_json(orient='split'): a Series has no `columns`.
PyToJson(n) ==
  IF n \in FrameNames THEN Frame(n)
  ELSE [name |-> n, index |-> <<0>>, data |-> <<9>>]

\* Strings handed to viewObjectByName, and their characters.
ViewNames == {"df", "dup", "hash", "s", "bad name!", "my.df", "constructor"}

\* Strings handed to viewPlotByName.
PlotNames == {"fig", "bad name!"}

Chars(name) ==
  CASE name = "df" -> <<"d", "f">>
    [] name = "dup" -> <<"d", "u", "p">>
    [] name = "hash" -> <<"h", "a", "s", "h">>
    [] name = "s" -> <<"s">>
    [] name = "fig" -> <<"f", "i", "g">>
    [] name = "bad name!" -> <<"b", "a", "d", " ", "n", "a", "m", "e", "!">>
    [] name = "my.df" -> <<"m", "y", ".", "d", "f">>
    [] name = "constructor" -> <<"c", "o", "n", "s", "t", "r", "u", "c", "t", "o", "r">>
    [] OTHER -> << >>

\* Buffers are sequences of characters.  INITIAL_CODE and INITIAL_PYTHON_CODE
\* of ./constants are the sample scripts the buffers start with.
INITIAL_R_CODE == <<"r">>
INITIAL_PYTHON_CODE == <<"p">>

\* What the user types into the editor or a console input.
Texts == {<< >>, <<" ">>, <<" ", "a", " ">>, <<"b">>, <<"c">>}

\* What the user types into the editor.
EditorTexts == {<< >>, <<" ", "a", " ">>}

Surfaces == {"editor", "console"}

ErrMsgs == {"boom"}   \* (error as Error).message of a failed interpreter call

\* ------------------------------------------------------------------- state
VARIABLES
  backend,        \* "python" | "r": the hook this behaviour exercises
  pyodide,        \* module-level `let pyodide`: 0 = undefined, else instance id
  webR,           \* module-level `let webR`: 0 = undefined, else instance id
  shelter,        \* shelter.current is set
  loaderCalls,    \* invocations of window.loadPyodide / new WebR()
  isLoading,
  consoleOutput,  \* sequence of [type, message]
  environment,    \* function: binding name -> entry
  tableData,      \* << >> (null) or <<table>>
  plots,          \* sequence of [id, dataUrl]
  plotIdCounter,  \* module-level `let plotIdCounter`
  pkgs,           \* interpreter: pandas/matplotlib loaded in the current instance
  figs,           \* interpreter: open figures, by figure number: [uid, ver]
  globals,        \* interpreter: names bound in the global scope
  figSeq,         \* interpreter: figures/images created so far (their identity)
  readers,        \* WebR stream readers started by handleStream
  chunks,         \* stream chunks delivered so far
  init,           \* init[i]: position of the i-th initialize call
  run,            \* run[p]: position and arguments of the runCode call in slot p
  calls,          \* runCode invocations so far
  noops,          \* of which returned at the guard
  clears,         \* clear* invocations so far
  viewableDataFrames, \* useWebR state: name -> table of each data.frame binding
  view,           \* view[v]: the viewObjectByName call in slot v
  views,          \* viewObjectByName invocations so far
  surface,        \* "editor" | "console": the input this behaviour uses
  app,            \* App state: language, rCode, pythonCode, editorCode,
                  \*   commandHistory, historyIndex, tempUserCode
  editor,         \* << >> before the editor mounts, then <<the App state captured
                  \*   by the handlers that handleEditorDidMount registered>>
  rConsole,       \* ConsolePanel of RightPanel: inputValue, commandHistory,
                  \*   historyIndex, tempUserCode
  pyConsole,      \* ConsolePanel of PythonRightPanel: inputValue
  submits,        \* submit attempts (Run, Ctrl+Enter, Enter) so far
  runCalls,       \* calls of a backend's runCode the inputs made so far
  lastCall,       \* << >>, or <<[language, code, options]>> of the latest of them
  since           \* commands submitted since the history was last emptied

vars == <<backend, pyodide, webR, shelter, loaderCalls, isLoading, consoleOutput,
          environment, tableData, plots, plotIdCounter, pkgs, figs, globals,
          figSeq, readers, chunks, init, run, calls, noops, clears,
          viewableDataFrames, view, views, surface, app, editor, rConsole,
          pyConsole, submits, runCalls, lastCall, since>>

\* The state of App and of the panels' inputs.
sessionVars == <<surface, app, editor, rConsole, pyConsole, submits, runCalls, lastCall, since>>

\* What only viewObjectByName and updateEnvironment touch.
viewVars == <<viewableDataFrames, view, views>>

\* ----------------------------------------------------------------- helpers
Line(type, message) == [type |-> type, message |-> message]

\* Mutant of AppendLine: the update forgets `...prev`.
AppendLineDropsPrev(prev, type, message) == << Line(type, message) >>

\* setConsoleOutput(prev => [...prev, { type, message }])
AppendLine(prev, type, message) == Append(prev, Line(type, message))

\* setConsoleOutput([{ type: 'system', message }])
ResetConsole(message) == << Line("system", message) >>

EmptyEnv == [n \in {} |-> 0]

IdleInit == [pc |-> "idle", inst |-> 0]
IdleView == [pc |-> "idle", name |-> ""]
IdleRun == [pc |-> "idle", code |-> "", interactive |-> FALSE, refreshed |-> {},
            threw |-> FALSE]

\* useState initial values of the ConsolePanel of RightPanel and of
\* PythonRightPanel.
NewRConsole == [inputValue |-> << >>, commandHistory |-> << >>, historyIndex |-> -1,
                tempUserCode |-> << >>]
NewPyConsole == [inputValue |-> << >>]

\* useState initial values of App and of the two ConsolePanels.
SessionInit ==
  /\ app = [language |-> "r", rCode |-> INITIAL_R_CODE,
            pythonCode |-> INITIAL_PYTHON_CODE, editorCode |-> INITIAL_R_CODE,
            commandHistory |-> << >>, historyIndex |-> -1, tempUserCode |-> << >>]
  /\ editor = << >>
  /\ rConsole = NewRConsole
  /\ pyConsole = NewPyConsole
  /\ submits = 0 /\ runCalls = 0 /\ lastCall = << >> /\ since = {}

\* The hooks before the mount effect ran.
HookInit ==
  /\ pyodide = 0 /\ webR = 0 /\ shelter = FALSE /\ loaderCalls = 0
  /\ isLoading = TRUE
  /\ consoleOutput = << >>
  /\ environment = EmptyEnv
  /\ tableData = << >>
  /\ plots = << >>
  /\ plotIdCounter = 0
  /\ pkgs = FALSE /\ figs = << >> /\ globals = {} /\ figSeq = 0
  /\ readers = FALSE /\ chunks = 0
  /\ init = [i \in InitIds |-> IdleInit]
  /\ run = [p \in RunIds |-> IdleRun]
  /\ calls = 0 /\ noops = 0 /\ clears = 0
  /\ viewableDataFrames = EmptyEnv
  /\ view = [v \in ViewIds |-> IdleView]
  /\ views = 0

Init ==
  /\ backend \in {"python", "r"}
  /\ surface = "editor"
  /\ SessionInit
  /\ HookInit

\* ------------------------------------------------------------- initialize
\* The message of the catch block of initializePyodide / initializeWebR.
InitFailLine(msg) ==
  Line("stderr", <<IF backend = "python" THEN "Failed to initialize Pyodide: "
                                          ELSE "Failed to initialize WebR: ", msg>>)

\* Mutant of CatchLoading: the catch block leaves the flag as it is.
CatchLoadingKept == isLoading

\* The flag after `catch (error) { ...; setIsLoading(false); }`.
CatchLoading == FALSE

InitCatch(i, msg) ==
  /\ consoleOutput' = Append(consoleOutput, InitFailLine(msg))
  /\ isLoading' = CatchLoading
  /\ init' = [init EXCEPT ![i].pc = "failed"]

\* Calls are numbered in the order they start.
CanStartInit(i) ==
  /\ init[i].pc = "idle"
  /\ IF i = 1 THEN TRUE ELSE init[i - 1].pc # "idle"

\* initializePyodide up to its first await.
PyInitCall(i) ==
  /\ backend = "python"
  /\ CanStartInit(i)
  /\ IF pyodide # 0
       THEN /\ isLoading' = FALSE
            /\ init' = [init EXCEPT ![i].pc = "returned"]
            /\ UNCHANGED <<consoleOutput, loaderCalls>>
       ELSE /\ isLoading' = TRUE
            /\ consoleOutput' = ResetConsole(<<"Initializing Pyodide...">>)
            /\ loaderCalls' = loaderCalls + 1
            /\ init' = [init EXCEPT ![i].pc = "loadPyodide"]
  /\ UNCHANGED <<sessionVars, backend, viewVars, pyodide, webR, shelter, environment, tableData, plots,
                 plotIdCounter, pkgs, figs, globals, figSeq, readers, chunks, run,
                 calls, noops, clears>>

\* `pyodide = await window.loadPyodide(...)` settles; the handlers are set and
\* loadPackage is requested on the instance just assigned, a fresh interpreter.
PyLoadPyodide(i) ==
  /\ backend = "python"
  /\ init[i].pc = "loadPyodide"
  /\ \/ /\ pyodide' = i
        /\ pkgs' = FALSE /\ figs' = << >> /\ globals' = {}
        /\ consoleOutput' = AppendLine(consoleOutput, "system", <<"Loading packages...">>)
        /\ init' = [init EXCEPT ![i] = [pc |-> "loadPackage", inst |-> i]]
        /\ UNCHANGED isLoading
     \/ /\ \E msg \in ErrMsgs : InitCatch(i, msg)
        /\ UNCHANGED <<pyodide, pkgs, figs, globals>>
  /\ UNCHANGED <<sessionVars, backend, viewVars, webR, shelter, loaderCalls, environment, tableData, plots,
                 plotIdCounter, figSeq, readers, chunks, run, calls, noops, clears>>

\* `await pyodide.loadPackage(['pandas', 'matplotlib'])` settles, on the
\* instance it was requested on.
PyLoadPackage(i) ==
  /\ backend = "python"
  /\ init[i].pc = "loadPackage"
  /\ \/ /\ pkgs' = IF pyodide = init[i].inst THEN TRUE ELSE pkgs
        /\ isLoading' = FALSE
        /\ consoleOutput' = AppendLine(consoleOutput, "system",
                              <<"Pyodide Initialized. Ready to execute Python code.">>)
        /\ init' = [init EXCEPT ![i].pc = "updateEnv"]
     \/ /\ \E msg \in ErrMsgs : InitCatch(i, msg)
        /\ UNCHANGED pkgs
  /\ UNCHANGED <<sessionVars, backend, viewVars, pyodide, webR, shelter, loaderCalls, environment, tableData,
                 plots, plotIdCounter, figs, globals, figSeq, readers, chunks, run,
                 calls, noops, clears>>

\* ------------------------------------------- usePyodide: updateEnvironment
\* Mutant of SetEnvironment: the new snapshot is merged into the previous one.
SetEnvironmentMerges(prev, newEnv) == newEnv @@ prev

\* setEnvironment(JSON.parse(envJson)), setEnvironment(newEnv)
SetEnvironment(prev, newEnv) == newEnv

PyEntry(n) ==
  [type |-> CASE n \in {"x", "i"} -> "int"
              [] n \in FrameNames -> "DataFrame"
              [] n = "s" -> "Series"
              [] n = "fig" -> "Figure"
              [] n = "plots" -> "list"
              [] OTHER -> "BytesIO",
   is_dataframe |-> n \in FrameNames,
   is_figure |-> n = "fig"]

\* JSON.parse of the reflection script's json.dumps(_vars).
PyReflect(g) == [n \in g |-> PyEntry(n)]

\* The reflection script raises while it walks the global scope.
PyReflectRaises(g) == g \cap Unreflectable # {}

\* The body of updateEnvironment: `if (!pyodide) return;` then the reflection
\* script runs in the current instance and yields the snapshot, or raises
\* (always so when pandas/matplotlib cannot be imported), which the catch
\* block only logs.
PyUpdateEnvironment ==
  IF pyodide = 0
    THEN UNCHANGED environment
    ELSE \/ /\ pkgs /\ ~PyReflectRaises(globals)
            /\ environment' = SetEnvironment(environment, PyReflect(globals))
         \/ UNCHANGED environment

PyInitUpdateEnv(i) ==
  /\ backend = "python"
  /\ init[i].pc = "updateEnv"
  /\ PyUpdateEnvironment
  /\ init' = [init EXCEPT ![i].pc = "done"]
  /\ UNCHANGED <<sessionVars, backend, viewVars, pyodide, webR, shelter, loaderCalls, isLoading, consoleOutput,
                 tableData, plots, plotIdCounter, pkgs, figs, globals, figSeq,
                 readers, chunks, run, calls, noops, clears>>

\* ------------------------------------------------------ usePyodide: runCode
\* The mount effect has run before any user event reaches the hook.
Mounted == init[1].pc # "idle"

\* A call takes the lowest free slot; a resolved call's slot is free again.
FreeSlot(p) ==
  /\ run[p].pc \in {"idle", "resolved"}
  /\ \A q \in RunIds : q < p => run[q].pc \notin {"idle", "resolved"}

\* Mutant of PyRunGuard: the guard tests the handle only.
PyRunGuardIgnoresLoading == pyodide # 0

\* `if (!pyodide || isLoading) return;`
PyRunGuard == pyodide # 0 /\ ~isLoading

Started(code, interactive, pc) ==
  [pc |-> pc, code |-> code, interactive |-> interactive, refreshed |-> {},
   threw |-> FALSE]

\* runCode up to its first await.
PyRunCall(p, code, interactive) ==
  /\ backend = "python"
  /\ Mounted
  /\ FreeSlot(p)
  /\ calls' = calls + 1
  /\ IF PyRunGuard
       THEN /\ consoleOutput' = AppendLine(consoleOutput, "input", <<code>>)
            /\ run' = [run EXCEPT ![p] =
                         Started(code, interactive, IF interactive THEN "exec" ELSE "closeAll")]
            /\ UNCHANGED noops
       ELSE /\ noops' = noops + 1
            /\ UNCHANGED <<consoleOutput, run>>
  /\ UNCHANGED <<sessionVars, backend, viewVars, pyodide, webR, shelter, loaderCalls, isLoading, environment,
                 tableData, plots, plotIdCounter, pkgs, figs, globals, figSeq,
                 readers, chunks, init, clears>>

\* Mutant of PyCloseAllFigs: the figures are left open.
PyCloseAllFigsKeeps(f) == f

\* What plt.close('all') leaves open.
PyCloseAllFigs(f) == << >>

\* The script run's `plt.close('all')` call settles; it raises when matplotlib
\* cannot be imported, and the catch block swallows that.
PyCloseAll(p) ==
  /\ backend = "python"
  /\ run[p].pc = "closeAll"
  /\ IF pkgs
       THEN /\ figs' = PyCloseAllFigs(figs)
            /\ run' = [run EXCEPT ![p].pc = "exec"]
       ELSE /\ run' = [run EXCEPT ![p].pc = "updateEnv", ![p].threw = TRUE]
            /\ UNCHANGED figs
  /\ UNCHANGED <<sessionVars, backend, viewVars, pyodide, webR, shelter, loaderCalls, isLoading, consoleOutput,
                 environment, tableData, plots, plotIdCounter, pkgs, globals, figSeq,
                 readers, chunks, init, calls, noops, clears>>

\* Figures after the program ran: fresh figures are appended with new
\* identities; a redraw changes the current (last) figure, opening one if none.
RECURSIVE OpenFigs(_, _, _)
OpenFigs(f, n, seq) ==
  IF n = 0 THEN f ELSE OpenFigs(Append(f, [uid |-> seq + 1, ver |-> 0]), n - 1, seq + 1)

FigsAfter(code, f, seq) ==
  LET opened == OpenFigs(f, NewFigs(code), seq)
  IN  IF ~Redraws(code) THEN opened
      ELSE IF opened = << >> THEN << [uid |-> seq + 1, ver |-> 1] >>
      ELSE [opened EXCEPT ![Len(opened)].ver = @ + 1]

FigSeqAfter(code, f, seq) ==
  seq + NewFigs(code) + (IF Redraws(code) /\ f = << >> /\ NewFigs(code) = 0 THEN 1 ELSE 0)

\* The batched stdout/stderr handlers: `if (msg) setConsoleOutput(prev => ...)`.
RECURSIVE PyEmit(_, _)
PyEmit(console, out) ==
  IF out = << >> THEN console
  ELSE PyEmit(IF Head(out)[2] # ""
                THEN AppendLine(console, Head(out)[1], <<Head(out)[2]>>)
                ELSE console,
              Tail(out))

\* `await pyodide.runPythonAsync(code)` settles.  An exception (the program's
\* own, or a failed import) is thrown to JavaScript: it skips the plot capture
\* and lands in `catch (e) { /* printed by the pyodide.setStderr handler */ }`,
\* which appends nothing; the handlers see only what Python wrote to the streams.
PyExec(p) ==
  LET code == run[p].code
      missing == NeedsPackages(code) /\ ~pkgs
  IN
  /\ backend = "python"
  /\ run[p].pc = "exec"
  /\ IF missing
       THEN /\ run' = [run EXCEPT ![p].pc = "updateEnv", ![p].threw = TRUE]
            /\ UNCHANGED <<consoleOutput, figs, globals, figSeq>>
       ELSE /\ figs' = FigsAfter(code, figs, figSeq)
            /\ figSeq' = FigSeqAfter(code, figs, figSeq)
            /\ globals' = GlobalsAfter(code, globals)
            /\ consoleOutput' = PyEmit(consoleOutput, Output(code))
            /\ run' = IF Throws(code)
                        THEN [run EXCEPT ![p].pc = "updateEnv", ![p].threw = TRUE]
                        ELSE [run EXCEPT ![p].pc = "capture"]
  /\ UNCHANGED <<sessionVars, backend, viewVars, pyodide, webR, shelter, loaderCalls, isLoading, environment,
                 tableData, plots, plotIdCounter, pkgs, readers, chunks, init,
                 calls, noops, clears>>

\* Mutant of PlotObjects: the counter is read once for the whole batch.
PlotObjectsOneId(images, counter) ==
  [k \in 1..Len(images) |-> [id |-> counter, dataUrl |-> images[k]]]

\* newPlots.map(p => ({ id: `plot-${plotIdCounter++}`, dataUrl }))
PlotObjects(images, counter) ==
  [k \in 1..Len(images) |-> [id |-> counter + k - 1, dataUrl |-> images[k]]]

\* Mutant of PySetPlots: the interactive branch appends too.
PySetPlotsAppends(prev, plotObjects, interactive) == prev \o plotObjects

\* `if (isInteractive) setPlots(plotObjects)
\*  else if (plotObjects.length > 0) setPlots(prev => [...prev, ...plotObjects])`
PySetPlots(prev, plotObjects, interactive) ==
  IF interactive THEN plotObjects ELSE prev \o plotObjects

\* The capture script settles: every open figure is rendered, and stays open.
PyCapture(p) ==
  /\ backend = "python"
  /\ run[p].pc = "capture"
  /\ IF pkgs
       THEN /\ plots' = PySetPlots(plots, PlotObjects(figs, plotIdCounter), run[p].interactive)
            /\ plotIdCounter' = plotIdCounter + Len(figs)
            /\ globals' = globals \cup {"plots"}
                            \cup (IF figs # << >> THEN {"i", "fig", "buf"} ELSE {})
            /\ run' = [run EXCEPT ![p].pc = "updateEnv", ![p].refreshed = @ \cup {"plots"}]
       ELSE /\ run' = [run EXCEPT ![p].pc = "updateEnv", ![p].threw = TRUE]
            /\ UNCHANGED <<plots, plotIdCounter, globals>>
  /\ UNCHANGED <<sessionVars, backend, viewVars, pyodide, webR, shelter, loaderCalls, isLoading, consoleOutput,
                 environment, tableData, pkgs, figs, figSeq, readers, chunks, init,
                 calls, noops, clears>>

\* The `finally { await updateEnvironment(); }` of runCode settles.
PyRunUpdateEnv(p) ==
  /\ backend = "python"
  /\ run[p].pc = "updateEnv"
  /\ PyUpdateEnvironment
  /\ run' = [run EXCEPT ![p].pc = "resolved", ![p].refreshed = @ \cup {"env"}]
  /\ UNCHANGED <<sessionVars, backend, viewVars, pyodide, webR, shelter, loaderCalls, isLoading, consoleOutput,
                 tableData, plots, plotIdCounter, pkgs, figs, globals, figSeq,
                 readers, chunks, init, calls, noops, clears>>

\* --------------------------------------------------- useWebR: initialize
\* initializeWebR up to its first await: `webR = new WebR()` runs before it.
RInitCall(i) ==
  /\ backend = "r"
  /\ CanStartInit(i)
  /\ IF webR # 0
       THEN /\ isLoading' = FALSE
            /\ init' = [init EXCEPT ![i].pc = "returned"]
            /\ UNCHANGED <<webR, consoleOutput, loaderCalls>>
       ELSE /\ webR' = i
            /\ loaderCalls' = loaderCalls + 1
            /\ isLoading' = TRUE
            /\ consoleOutput' = ResetConsole(<<"Initializing WebR...">>)
            /\ init' = [init EXCEPT ![i] = [pc |-> "init", inst |-> i]]
  /\ UNCHANGED <<sessionVars, backend, viewVars, pyodide, shelter, environment, tableData, plots,
                 plotIdCounter, pkgs, figs, globals, figSeq, readers, chunks, run,
                 calls, noops, clears>>

\* `await webR.init()` settles; `new webR.Shelter()` is requested.
RWebRInit(i) ==
  /\ backend = "r"
  /\ init[i].pc = "init"
  /\ \/ /\ init' = [init EXCEPT ![i].pc = "shelter"]
        /\ UNCHANGED <<isLoading, consoleOutput>>
     \/ \E msg \in ErrMsgs : InitCatch(i, msg)
  /\ UNCHANGED <<sessionVars, backend, viewVars, pyodide, webR, shelter, loaderCalls, environment, tableData,
                 plots, plotIdCounter, pkgs, figs, globals, figSeq, readers, chunks,
                 run, calls, noops, clears>>

\* `shelter.current = await new webR.Shelter()` settles; shim_install is requested.
RNewShelter(i) ==
  /\ backend = "r"
  /\ init[i].pc = "shelter"
  /\ \/ /\ shelter' = TRUE
        /\ consoleOutput' = AppendLine(consoleOutput, "system",
                              <<"Setting up communication channels...">>)
        /\ init' = [init EXCEPT ![i].pc = "shim"]
        /\ UNCHANGED isLoading
     \/ /\ \E msg \in ErrMsgs : InitCatch(i, msg)
        /\ UNCHANGED shelter
  /\ UNCHANGED <<sessionVars, backend, viewVars, pyodide, webR, loaderCalls, environment, tableData,
                 plots, plotIdCounter, pkgs, figs, globals, figSeq, readers, chunks,
                 run, calls, noops, clears>>

\* `await webR.evalRVoid('webr::shim_install()')` settles; handleStream starts a
\* reader for each stream the WebR object exposes; the canvas call is requested.
RShimInstall(i) ==
  /\ backend = "r"
  /\ init[i].pc = "shim"
  /\ \/ /\ readers' \in BOOLEAN
        /\ init' = [init EXCEPT ![i].pc = "canvas"]
        /\ UNCHANGED <<isLoading, consoleOutput>>
     \/ /\ \E msg \in ErrMsgs : InitCatch(i, msg)
        /\ UNCHANGED readers
  /\ UNCHANGED <<sessionVars, backend, viewVars, pyodide, webR, shelter, loaderCalls, environment, tableData,
                 plots, plotIdCounter, pkgs, figs, globals, figSeq, chunks,
                 run, calls, noops, clears>>

\* `await webR.evalRVoid('webr::canvas(...)')` settles; the view channel is
\* hooked, the loading flag cleared and updateEnvironment requested.
RCanvas(i) ==
  /\ backend = "r"
  /\ init[i].pc = "canvas"
  /\ \/ /\ isLoading' = FALSE
        /\ consoleOutput' = AppendLine(consoleOutput, "system",
                              <<"WebR Initialized. Ready to execute R code.">>)
        /\ init' = [init EXCEPT ![i].pc = "updateEnv"]
     \/ \E msg \in ErrMsgs : InitCatch(i, msg)
  /\ UNCHANGED <<sessionVars, backend, viewVars, pyodide, webR, shelter, loaderCalls, environment, tableData,
                 plots, plotIdCounter, pkgs, figs, globals, figSeq, readers, chunks,
                 run, calls, noops, clears>>

\* ---------------------------------------------- useWebR: updateEnvironment
\* dataRObj.toJs() of a data.frame: a list with the column names and, for each
\* column, its vector of values.
RToJs(frame) ==
  [type |-> "list",
   names |-> frame.columns,
   values |-> [j \in 1..Len(frame.columns) |->
                 [values |-> [i \in 1..Len(frame.data) |-> frame.data[i][j]]]]]

\* The inner loop of rObjectToTable: `row[colName] = colData.values[i]`, or
\* null (here "null") for an empty name or a short column; a later column
\* with the same name overwrites the earlier one.
RECURSIVE RRow(_, _, _, _)
RRow(row, jsObject, i, j) ==
  IF j > Len(jsObject.names) THEN row
  ELSE LET colName == jsObject.names[j]
           colData == jsObject.values[j]
           cell == IF colName # "" /\ i <= Len(colData.values)
                     THEN colData.values[i] ELSE "null"
       IN  RRow((colName :> cell) @@ row, jsObject, i, j + 1)

\* rObjectToTable: << >> is null, <<table>> a result.
rObjectToTable(jsObject) ==
  IF jsObject.type # "list" THEN << >>
  ELSE LET columns == jsObject.names
           nRows == IF Len(columns) = 0 \/ Len(jsObject.values) = 0
                      THEN 0 ELSE Len(jsObject.values[1].values)
       IN  << [data |-> [i \in 1..nRows |-> RRow(EmptyEnv, jsObject, i, 1)],
               columns |-> columns] >>

\* newViewableDataFrames built from the `dataframes` element: one table per
\* global binding that is.data.frame.
RDataFrames(g) ==
  [n \in {m \in g \cap FrameNames : rObjectToTable(RToJs(Frame(m))) # << >>} |->
     rObjectToTable(RToJs(Frame(n)))[1]]

REntry(n) ==
  [objectType |-> "variable",
   class |-> IF n \in FrameNames THEN <<"data.frame">>
             ELSE IF n = "res" THEN <<"list">> ELSE <<"numeric">>]

\* The names of envJs.values[i], the details node of a binding.
RDetailNames(n) ==
  IF n \in Unreflectable THEN <<"class", "objectType">>
  ELSE <<"class", "objectType", "str">>

\* details.names.indexOf(key) # -1, so that details.values[...] is an object
\* with a `values` array.
RHasDetail(n, key) == \E i \in DOMAIN RDetailNames(n) : RDetailNames(n)[i] = key

\* The bindings whose node passes the guards of the loop.
RIngested(g) ==
  {n \in g : \A key \in {"objectType", "class", "str"} : RHasDetail(n, key)}

\* newEnv built from the `env` element of the reflection list.
RReflect(g) == [n \in RIngested(g) |-> REntry(n)]

\* The body of updateEnvironment: `if (!webR || !webR.evalR) return;` then the
\* reflection call (base R only, which a constructed WebR evaluates),
\* setEnvironment(newEnv) and setViewableDataFrames(newViewableDataFrames).
RUpdateEnvironment ==
  IF webR = 0
    THEN UNCHANGED <<environment, viewableDataFrames>>
    ELSE /\ environment' = SetEnvironment(environment, RReflect(globals))
         /\ viewableDataFrames' = RDataFrames(globals)

RInitUpdateEnv(i) ==
  /\ backend = "r"
  /\ init[i].pc = "updateEnv"
  /\ RUpdateEnvironment
  /\ init' = [init EXCEPT ![i].pc = "done"]
  /\ UNCHANGED <<sessionVars, backend, view, views, pyodide, webR, shelter, loaderCalls, isLoading, consoleOutput,
                 tableData, plots, plotIdCounter, pkgs, figs, globals, figSeq,
                 readers, chunks, run, calls, noops, clears>>

\* --------------------------------------------------------- useWebR: runCode
\* `if (!webR || isLoading || !shelter.current) return;`
RRunGuard == webR # 0 /\ ~isLoading /\ shelter

\* runCode up to its first await.
RRunCall(p, code) ==
  /\ backend = "r"
  /\ Mounted
  /\ FreeSlot(p)
  /\ calls' = calls + 1
  /\ IF RRunGuard
       THEN /\ consoleOutput' = AppendLine(consoleOutput, "input", <<code>>)
            /\ run' = [run EXCEPT ![p] = Started(code, FALSE, "captureR")]
            /\ UNCHANGED noops
       ELSE /\ noops' = noops + 1
            /\ UNCHANGED <<consoleOutput, run>>
  /\ UNCHANGED <<sessionVars, backend, viewVars, pyodide, webR, shelter, loaderCalls, isLoading, environment,
                 tableData, plots, plotIdCounter, pkgs, figs, globals, figSeq,
                 readers, chunks, init, clears>>

\* The texts of one stream, in order: `msg.data + '\n'` concatenated.
RECURSIVE RCollect(_, _)
RCollect(out, type) ==
  IF out = << >> THEN << >>
  ELSE (IF Head(out)[1] = type THEN <<Head(out)[2]>> ELSE << >>) \o RCollect(Tail(out), type)

\* String.trimEnd on the concatenation: trailing empty lines go.
RECURSIVE TrimEnd(_)
TrimEnd(lines) ==
  IF lines = << >> THEN << >>
  ELSE IF lines[Len(lines)] = "" THEN TrimEnd(SubSeq(lines, 1, Len(lines) - 1))
  ELSE lines

\* `if (messages) setConsoleOutput(prev => [...prev, { type, message }])`
REmit(console, out, type) ==
  LET message == TrimEnd(RCollect(out, type))
  IN  IF message # << >> THEN AppendLine(console, type, message) ELSE console

\* The images captureR hands back: one per figure drawn in this call.
RImages(code, seq) ==
  [k \in 1..(NewFigs(code) + (IF Redraws(code) THEN 1 ELSE 0)) |-> [uid |-> seq + k, ver |-> 0]]

\* `if (captureResult.images.length > 0) { ...; setPlots(prev => [...prev, ...newPlots]) }`
RSetPlots(prev, plotObjects) == prev \o plotObjects

\* `catch (e) { setConsoleOutput(prev => [...prev, { type: 'stderr', message: e.message }]) }`
RCatch(console, msg) == AppendLine(console, "stderr", <<msg>>)

\* `await shelter.current.captureR(codeToExecute, { withImages: true })` settles.
\* An R error is thrown to JavaScript and takes the capture's images with it.
RCaptureR(p) ==
  LET code == run[p].code
      images == RImages(code, figSeq)
  IN
  /\ backend = "r"
  /\ run[p].pc = "captureR"
  /\ figSeq' = figSeq + Len(images)
  /\ IF Throws(code)
       THEN /\ \E msg \in ErrMsgs : consoleOutput' = RCatch(consoleOutput, msg)
            /\ globals' = GlobalsAfter(code, globals)
            /\ run' = [run EXCEPT ![p].pc = "updateEnv", ![p].threw = TRUE]
            /\ UNCHANGED <<plots, plotIdCounter>>
       ELSE /\ consoleOutput' = REmit(REmit(consoleOutput, Output(code), "stdout"),
                                      Output(code), "stderr")
            /\ plots' = RSetPlots(plots, PlotObjects(images, plotIdCounter))
            /\ plotIdCounter' = plotIdCounter + Len(images)
            /\ globals' = GlobalsAfter(code, globals) \cup {"res"}
            /\ run' = [run EXCEPT ![p].pc = "updateEnv", ![p].refreshed = @ \cup {"plots"}]
  /\ UNCHANGED <<sessionVars, backend, viewVars, pyodide, webR, shelter, loaderCalls, isLoading, environment,
                 tableData, pkgs, figs, readers, chunks, init, calls, noops, clears>>

\* The `finally { await updateEnvironment(); }` of runCode settles.
RRunUpdateEnv(p) ==
  /\ backend = "r"
  /\ run[p].pc = "updateEnv"
  /\ RUpdateEnvironment
  /\ run' = [run EXCEPT ![p].pc = "resolved", ![p].refreshed = @ \cup {"env"}]
  /\ UNCHANGED <<sessionVars, backend, view, views, pyodide, webR, shelter, loaderCalls, isLoading, consoleOutput,
                 tableData, plots, plotIdCounter, pkgs, figs, globals, figSeq,
                 readers, chunks, init, calls, noops, clears>>

\* handleStream's loop: `setConsoleOutput(prev => [...prev, { type, message: value }])`
RStreamChunk(type, value) ==
  /\ backend = "r"
  /\ readers
  /\ chunks < MaxStreamChunks
  /\ chunks' = chunks + 1
  /\ consoleOutput' = AppendLine(consoleOutput, type, <<value>>)
  /\ UNCHANGED <<sessionVars, backend, viewVars, pyodide, webR, shelter, loaderCalls, isLoading, environment,
                 tableData, plots, plotIdCounter, pkgs, figs, globals, figSeq,
                 readers, init, run, calls, noops, clears>>

\* -------------------------------------------------------- viewObjectByName
Letters == {"a", "b", "c", "d", "e", "f", "g", "h", "i", "j", "k", "l", "m", "n", "o",
            "p", "q", "r", "s", "t", "u", "v", "w", "x", "y", "z"}
Digits == {"0", "1", "2", "3", "4", "5", "6", "7", "8", "9"}

\* Mutant of MatchesAll: the pattern without its anchors, [class]+ .
MatchesSome(chars, class) == \E k \in 1..Len(chars) : chars[k] \in class

\* The regular expression ^[class]+$ : at least one character, all of the class.
MatchesAll(chars, class) ==
  /\ Len(chars) > 0
  /\ \A k \in 1..Len(chars) : chars[k] \in class

\* Mutant of PyNamePattern: any non-empty string passes.
PyNamePatternLoose(name) == Len(Chars(name)) > 0

\* /^[a-zA-Z0-9_]+$/.test(name)
PyNamePattern(name) == MatchesAll(Chars(name), Letters \cup Digits \cup {"_"})

\* /^[a-zA-Z0-9_.]+$/.test(name)
RNamePattern(name) == MatchesAll(Chars(name), Letters \cup Digits \cup {"_", "."})

\* Calls take the slots in order; a finished call leaves its slot idle.
CanStartView(v) == Mounted /\ v = views + 1

\* parsed.columns.forEach(...) in the row callback: each cell is stored under
\* its column label, after '#' was set to the index label.
RECURSIVE PySetCols(_, _, _)
PySetCols(rowObj, columns, row) ==
  IF columns = << >> THEN rowObj
  ELSE PySetCols((Head(columns) :> Head(row)) @@ rowObj, Tail(columns), Tail(row))

\* setTableData({ name, columns: ['#', ...table.columns], data: table.data })
PyTable(name, parsed) ==
  [name |-> name,
   columns |-> <<"#">> \o parsed.columns,
   data |-> [i \in 1..Len(parsed.data) |->
               PySetCols("#" :> parsed.index[i], parsed.columns, parsed.data[i])]]

\* The stderr line of the catch block of viewObjectByName.
PyViewFailLine(name, msg) ==
  Line("stderr", <<"Could not view object '", name, "': ">> \o msg)

\* viewObjectByName up to its await.
PyViewCall(v, name) ==
  /\ backend = "python"
  /\ CanStartView(v)
  /\ views' = views + 1
  /\ IF pyodide = 0 \/ ~PyNamePattern(name)
       THEN /\ consoleOutput' = AppendLine(consoleOutput, "stderr",
                                   <<"Error: Invalid object name for viewer: ", name>>)
            /\ UNCHANGED view
       ELSE /\ view' = [view EXCEPT ![v] = [pc |-> "json", name |-> name]]
            /\ UNCHANGED consoleOutput
  /\ UNCHANGED <<sessionVars, backend, viewableDataFrames, pyodide, webR, shelter, loaderCalls,
                 isLoading, environment, tableData, plots, plotIdCounter, pkgs, figs,
                 globals, figSeq, readers, chunks, init, run, calls, noops, clears>>

\* `await pyodide.runPythonAsync(jsonCode)` settles: the script yields the
\* to_json text of the binding or None; a Series parses to an object without
\* `columns`, on which the table construction throws a TypeError.
PyViewSettle(v) ==
  LET name == view[v].name
      found == name \in globals /\ HasToJson(name)
      parsed == PyToJson(name)
  IN
  /\ backend = "python"
  /\ view[v].pc = "json"
  /\ view' = [view EXCEPT ![v] = IdleView]
  /\ IF ~found
       THEN /\ consoleOutput' = Append(consoleOutput, PyViewFailLine(name,
                   <<"Object '", name, "' is not a DataFrame or does not exist.">>))
            /\ UNCHANGED tableData
       ELSE IF "columns" \notin DOMAIN parsed
       THEN /\ consoleOutput' = Append(consoleOutput, PyViewFailLine(name,
                   <<"Cannot read properties of undefined">>))
            /\ UNCHANGED tableData
       ELSE /\ tableData' = << PyTable(name, parsed) >>
            /\ UNCHANGED consoleOutput
  /\ UNCHANGED <<sessionVars, backend, viewableDataFrames, views, pyodide, webR, shelter,
                 loaderCalls, isLoading, environment, plots, plotIdCounter, pkgs, figs,
                 globals, figSeq, readers, chunks, init, run, calls, noops, clears>>

\* viewPlotByName up to its await.
PyViewPlotCall(v, name) ==
  /\ backend = "python"
  /\ CanStartView(v)
  /\ views' = views + 1
  /\ IF pyodide = 0 \/ ~PyNamePattern(name)
       THEN /\ consoleOutput' = AppendLine(consoleOutput, "stderr",
                                   <<"Error: Invalid object name for viewer: ", name>>)
            /\ UNCHANGED view
       ELSE /\ view' = [view EXCEPT ![v] = [pc |-> "png", name |-> name]]
            /\ UNCHANGED consoleOutput
  /\ UNCHANGED <<sessionVars, backend, viewableDataFrames, pyodide, webR, shelter, loaderCalls,
                 isLoading, environment, tableData, plots, plotIdCounter, pkgs, figs,
                 globals, figSeq, readers, chunks, init, run, calls, noops, clears>>

\* `await pyodide.runPythonAsync(pythonCode)` of viewPlotByName settles: the
\* script renders the binding if it is a Figure (importing matplotlib, so it
\* raises without the packages) and yields None otherwise.  The capture
\* script of runCode leaves `fig` bound to the last figure it rendered.
PyViewPlotSettle(v) ==
  LET name == view[v].name
      found == pkgs /\ name \in globals /\ PyEntry(name).is_figure /\ figs # << >>
  IN
  /\ backend = "python"
  /\ view[v].pc = "png"
  /\ view' = [view EXCEPT ![v] = IdleView]
  /\ IF found
       THEN /\ plots' = plots \o PlotObjects(<<figs[Len(figs)]>>, plotIdCounter)
            /\ plotIdCounter' = plotIdCounter + 1
            /\ globals' = globals \cup {"plot_b64", "buf"}
            /\ UNCHANGED consoleOutput
       ELSE /\ consoleOutput' = AppendLine(consoleOutput, "stderr",
                   <<"Could not view plot object '", name, "': ", "not a Figure">>)
            /\ UNCHANGED <<plots, plotIdCounter, globals>>
  /\ UNCHANGED <<sessionVars, backend, viewableDataFrames, views, pyodide, webR, shelter,
                 loaderCalls, isLoading, environment, tableData, pkgs, figs,
                 figSeq, readers, chunks, init, run, calls, noops, clears>>

\* Property names every object literal inherits from Object.prototype
\* (constructor, toString, valueOf, ...): `obj[key]` yields the inherited
\* value, a function, for them.
ObjectPrototypeKeys == {"constructor"}

\* useWebR.viewObjectByName, which has no await.  `viewableDataFrames[name]`
\* is the table of an own key, the inherited function of an Object.prototype
\* key (truthy; spreading it adds no property), undefined otherwise.
RViewObject(v, name) ==
  /\ backend = "r"
  /\ CanStartView(v)
  /\ views' = views + 1
  /\ IF ~RNamePattern(name)
       THEN /\ consoleOutput' = AppendLine(consoleOutput, "stderr",
                                   <<"Error: Invalid object name for View(): ", name>>)
            /\ UNCHANGED tableData
       ELSE IF name \in DOMAIN viewableDataFrames
       THEN /\ tableData' = << [name |-> name,
                                data |-> viewableDataFrames[name].data,
                                columns |-> viewableDataFrames[name].columns] >>
            /\ UNCHANGED consoleOutput
       ELSE IF name \in ObjectPrototypeKeys
       THEN /\ tableData' = << [name |-> name] >>
            /\ UNCHANGED consoleOutput
       ELSE /\ consoleOutput' = AppendLine(consoleOutput, "stderr",
                                   <<"Data for object '", name, "' not found.">>)
            /\ UNCHANGED tableData
  /\ UNCHANGED <<sessionVars, backend, viewableDataFrames, view, pyodide, webR, shelter,
                 loaderCalls, isLoading, environment, plots, plotIdCounter, pkgs, figs,
                 globals, figSeq, readers, chunks, init, run, calls, noops, clears>>

\* ------------------------------------------------------------------ clears
clearPlots ==
  /\ Mounted /\ clears < MaxClears
  /\ clears' = clears + 1
  /\ plots' = << >>
  /\ UNCHANGED <<sessionVars, backend, viewVars, pyodide, webR, shelter, loaderCalls, isLoading, consoleOutput,
                 environment, tableData, plotIdCounter, pkgs, figs, globals, figSeq,
                 readers, chunks, init, run, calls, noops>>

\* Mutant of clearTable: the table and the plots are both reset.
clearTableAndPlots ==
  /\ Mounted /\ clears < MaxClears
  /\ clears' = clears + 1
  /\ tableData' = << >>
  /\ plots' = << >>
  /\ UNCHANGED <<sessionVars, backend, viewVars, pyodide, webR, shelter, loaderCalls, isLoading,
                 consoleOutput, environment, plotIdCounter, pkgs, figs, globals,
                 figSeq, readers, chunks, init, run, calls, noops>>

clearTable ==
  /\ Mounted /\ clears < MaxClears
  /\ clears' = clears + 1
  /\ tableData' = << >>
  /\ UNCHANGED <<sessionVars, backend, viewVars, pyodide, webR, shelter, loaderCalls, isLoading, consoleOutput,
                 environment, plots, plotIdCounter, pkgs, figs, globals, figSeq,
                 readers, chunks, init, run, calls, noops>>

clearConsole ==
  /\ Mounted /\ clears < MaxClears
  /\ clears' = clears + 1
  /\ consoleOutput' = << >>
  /\ UNCHANGED <<sessionVars, backend, viewVars, pyodide, webR, shelter, loaderCalls, isLoading, environment,
                 tableData, plots, plotIdCounter, pkgs, figs, globals, figSeq,
                 readers, chunks, init, run, calls, noops>>

\* ------------------------------------------ App, EditorPanel, ConsolePanel
\* The hook state, which the handlers of App and of the panels leave alone:
\* a runCode call they make is counted in runCalls and kept in lastCall, and
\* what the hook does with it is the subject of the other specifications.
hookVars == <<backend, pyodide, webR, shelter, loaderCalls, isLoading,
              consoleOutput, environment, tableData, plots, plotIdCounter,
              pkgs, figs, globals, figSeq, readers, chunks, init, run,
              calls, noops, clears, viewableDataFrames, view, views>>

Whitespace == {" ", "\n", "\t"}

RECURSIVE DropLeading(_)
DropLeading(text) ==
  IF text # << >> /\ Head(text) \in Whitespace THEN DropLeading(Tail(text)) ELSE text

RECURSIVE DropTrailing(_)
DropTrailing(text) ==
  IF text # << >> /\ text[Len(text)] \in Whitespace
  THEN DropTrailing(SubSeq(text, 1, Len(text) - 1))
  ELSE text

\* String.prototype.trim
trim(text) == DropTrailing(DropLeading(text))

Min(a, b) == IF a < b THEN a ELSE b

\* Mutant of PushHistory: the update forgets the filter.
PushHistoryKeepsOld(prev, code) == <<code>> \o prev

\* prev => [trimmedCode, ...prev.filter(c => c !== trimmedCode)]
PushHistory(prev, code) == <<code>> \o SelectSeq(prev, LAMBDA c : c # code)

\* The value `undefined` of JavaScript, which no buffer equals.
Undefined == <<"undefined">>

\* commandHistory[i] of JavaScript: undefined when i is out of range.
At(history, i) == IF i >= 0 /\ i < Len(history) THEN history[i + 1] ELSE Undefined

\* A call runCode(code) of the hook of `language`: no caller passes the
\* second argument, so `options` is undefined (<< >>).
Call(language, code) == [language |-> language, code |-> code, options |-> << >>]

\* `options?.isInteractive ?? false` of usePyodide.runCode.
IsInteractive(call) == call.options # << >> /\ call.options[1].isInteractive

\* handleCodeChange of the render whose language is `language`.
handleCodeChange(a, language, newCode) ==
  [a EXCEPT !.rCode = IF language = "r" THEN newCode ELSE @,
            !.pythonCode = IF language = "r" THEN @ ELSE newCode,
            !.editorCode = newCode]

\* The dependencies of the effect of App.
Deps(a) == <<a.language, a.rCode, a.pythonCode>>

\* The effect of App, after a render that followed the state `prev`: when a
\* dependency changed, the buffer becomes the language's code and the history,
\* the cursor and the draft are reset.
AppEffect(prev, a) ==
  IF Deps(a) = Deps(prev) THEN a
  ELSE [a EXCEPT !.editorCode = IF a.language = "r" THEN a.rCode ELSE a.pythonCode,
                 !.commandHistory = << >>,
                 !.historyIndex = -1,
                 !.tempUserCode = << >>]

\* The effect of EditorPanel.
EditorPanelEffect(a) ==
  IF a.historyIndex > -1 /\ a.editorCode # At(a.commandHistory, a.historyIndex)
  THEN [a EXCEPT !.historyIndex = -1]
  ELSE a

\* The renders and effects that follow a handler, until nothing changes: the
\* effect of EditorPanel, the effect of App, the effect of EditorPanel again.
Settle(prev, a) == EditorPanelEffect(AppEffect(prev, EditorPanelEffect(a)))

\* The step changed a dependency of the effect of App, which emptied the
\* history.
Emptied == Deps(app') # Deps(app)

\* handleRun of the render `s`, applied to the state `a`: the state updates.
handleRun(a, s) ==
  LET trimmedCode == trim(s.editorCode) IN
  IF trimmedCode = << >> THEN a
  ELSE [a EXCEPT !.commandHistory = PushHistory(@, trimmedCode),
                 !.historyIndex = -1,
                 !.tempUserCode = << >>]

\* handleRun of the render `s`: the runCode calls it makes.
handleRunCalls(s) ==
  LET trimmedCode == trim(s.editorCode) IN
  IF trimmedCode = << >> THEN << >> ELSE <<Call(s.language, trimmedCode)>>

\* The bookkeeping of a submit attempt that made the runCode calls `made`.
Submitted(made) ==
  /\ submits' = submits + 1
  /\ runCalls' = runCalls + Len(made)
  /\ lastCall' = IF made = << >> THEN lastCall ELSE made
  /\ since' = since \cup {made[i].code : i \in DOMAIN made}

UseEditor == surface = "editor"
UseConsole == surface = "console"

\* isLoading of App, which disables the Run button: the isLoading of the hook
\* of the language.  A behaviour carries one hook, so the button is enabled
\* at any time for the other language.
RunDisabled == app.language = backend /\ isLoading

\* @monaco-editor/react calls onMount once, when the editor is ready: the
\* command and the two key handlers that handleEditorDidMount registers keep
\* the props of the render of that moment.
EditorMount ==
  /\ UseEditor
  /\ editor = << >>
  /\ editor' = <<app>>
  /\ UNCHANGED <<surface, app, rConsole, pyConsole, submits, runCalls, lastCall, since>>
  /\ UNCHANGED hookVars

\* onChange of the Editor, which follows the current render: the state of App
\* once the effects have run.
EditorChanged(a, value) ==
  Settle(a, handleCodeChange([a EXCEPT !.historyIndex = -1], a.language, value))

EditorChange(value) ==
  /\ UseEditor
  /\ editor # << >>
  /\ app' = EditorChanged(app, value)
  /\ since' = IF Emptied THEN {} ELSE since
  /\ UNCHANGED <<surface, editor, rConsole, pyConsole, submits, runCalls, lastCall>>
  /\ UNCHANGED hookVars

\* The Run button: onRun of the current render.
EditorRunButton ==
  /\ UseEditor
  /\ ~RunDisabled
  /\ submits < MaxSubmits
  /\ app' = Settle(app, handleRun(app, app))
  /\ Submitted(handleRunCalls(app))
  /\ UNCHANGED <<surface, editor, rConsole, pyConsole>>
  /\ UNCHANGED hookVars

\* Ctrl+Enter or Cmd+Enter in the editor: onRun of the render of the mount.
EditorCtrlEnter ==
  /\ UseEditor
  /\ editor # << >>
  /\ submits < MaxSubmits
  /\ app' = Settle(app, handleRun(app, editor[1]))
  /\ Submitted(handleRunCalls(editor[1]))
  /\ UNCHANGED <<surface, editor, rConsole, pyConsole>>
  /\ UNCHANGED hookVars

\* UpArrow on the first line of the editor, in the handler of the render `s`.
EditorOlder(a, s) ==
  IF Len(s.commandHistory) = 0 THEN a
  ELSE LET newIndex == Min(s.historyIndex + 1, Len(s.commandHistory) - 1)
           a1 == [a EXCEPT !.tempUserCode = IF s.historyIndex = -1 THEN s.editorCode ELSE @,
                           !.historyIndex = newIndex]
           a2 == handleCodeChange(a1, s.language, At(s.commandHistory, newIndex))
       IN Settle(a, a2)

\* DownArrow on the last line of the editor, in the handler of the render `s`.
EditorNewer(a, s) ==
  IF s.historyIndex = -1 THEN a
  ELSE LET newIndex == s.historyIndex - 1
           a1 == [a EXCEPT !.historyIndex = newIndex]
           a2 == handleCodeChange(a1, s.language,
                                  IF newIndex < 0 THEN s.tempUserCode
                                  ELSE At(s.commandHistory, newIndex))
       IN Settle(a, a2)

EditorUpArrow ==
  /\ UseEditor
  /\ editor # << >>
  /\ app' = EditorOlder(app, editor[1])
  /\ since' = IF Emptied THEN {} ELSE since
  /\ UNCHANGED <<surface, editor, rConsole, pyConsole, submits, runCalls, lastCall>>
  /\ UNCHANGED hookVars

EditorDownArrow ==
  /\ UseEditor
  /\ editor # << >>
  /\ app' = EditorNewer(app, editor[1])
  /\ since' = IF Emptied THEN {} ELSE since
  /\ UNCHANGED <<surface, editor, rConsole, pyConsole, submits, runCalls, lastCall>>
  /\ UNCHANGED hookVars

\* A LanguageButton: the panel of the other language is unmounted and the
\* panel of this one mounted, each ConsolePanel with its initial state.
SwitchLanguage(a, language) == Settle(a, [a EXCEPT !.language = language])

\* Mutant of HooksKept: the hooks live in the panel that is unmounted, so the
\* console of the backend starts over.
HooksRemounted ==
  /\ consoleOutput' = << >>
  /\ UNCHANGED <<backend, pyodide, webR, shelter, loaderCalls, isLoading,
                 environment, tableData, plots, plotIdCounter, pkgs, figs,
                 globals, figSeq, readers, chunks, init, run, calls, noops,
                 clears, viewableDataFrames, view, views>>

\* useWebR() and usePyodide() are called by App itself, whatever the language:
\* a render with another language keeps both hooks and their state.
HooksKept == UNCHANGED hookVars

setLanguage(language) ==
  /\ language # app.language
  /\ app' = SwitchLanguage(app, language)
  /\ rConsole' = NewRConsole
  /\ pyConsole' = NewPyConsole
  /\ since' = {}
  /\ UNCHANGED <<surface, editor, submits, runCalls, lastCall>>
  /\ HooksKept

\* Mutant of ConsoleEffect: the effect does nothing.
ConsoleEffectSkipped(c) == c

\* The effect of the ConsolePanel of RightPanel.
ConsoleEffect(c) ==
  IF c.historyIndex > -1 /\ c.inputValue # At(c.commandHistory, c.historyIndex)
  THEN [c EXCEPT !.historyIndex = -1]
  ELSE c

\* handleKeyDown of the ConsolePanel of RightPanel, key Enter.
ConsoleEnter(c) ==
  LET trimmedCode == trim(c.inputValue) IN
  IF trimmedCode = << >> THEN c
  ELSE ConsoleEffect([c EXCEPT !.commandHistory = PushHistory(@, trimmedCode),
                               !.historyIndex = -1,
                               !.inputValue = << >>,
                               !.tempUserCode = << >>])

ConsoleEnterCalls(c) ==
  LET trimmedCode == trim(c.inputValue) IN
  IF trimmedCode = << >> THEN << >> ELSE <<Call("r", trimmedCode)>>

\* handleKeyDown of the ConsolePanel of RightPanel, key ArrowUp.
ConsoleOlder(c) ==
  IF Len(c.commandHistory) = 0 THEN c
  ELSE LET newIndex == Min(c.historyIndex + 1, Len(c.commandHistory) - 1) IN
       ConsoleEffect([c EXCEPT !.tempUserCode = IF c.historyIndex = -1 THEN c.inputValue ELSE @,
                               !.historyIndex = newIndex,
                               !.inputValue = At(c.commandHistory, newIndex)])

\* handleKeyDown of the ConsolePanel of RightPanel, key ArrowDown.
ConsoleNewer(c) ==
  IF c.historyIndex = -1 THEN c
  ELSE LET newIndex == c.historyIndex - 1 IN
       ConsoleEffect([c EXCEPT !.historyIndex = newIndex,
                               !.inputValue = IF newIndex < 0 THEN c.tempUserCode
                                              ELSE At(c.commandHistory, newIndex)])

RConsoleShown == UseConsole /\ app.language = "r"

\* onChange of the input of the ConsolePanel of RightPanel.
RConsoleChange(value) ==
  /\ RConsoleShown
  /\ rConsole' = ConsoleEffect([rConsole EXCEPT !.inputValue = value])
  /\ UNCHANGED <<surface, app, editor, pyConsole, submits, runCalls, lastCall, since>>
  /\ UNCHANGED hookVars

RConsoleEnter ==
  /\ RConsoleShown
  /\ submits < MaxSubmits
  /\ rConsole' = ConsoleEnter(rConsole)
  /\ Submitted(ConsoleEnterCalls(rConsole))
  /\ UNCHANGED <<surface, app, editor, pyConsole>>
  /\ UNCHANGED hookVars

RConsoleArrowUp ==
  /\ RConsoleShown
  /\ rConsole' = ConsoleOlder(rConsole)
  /\ UNCHANGED <<surface, app, editor, pyConsole, submits, runCalls, lastCall, since>>
  /\ UNCHANGED hookVars

RConsoleArrowDown ==
  /\ RConsoleShown
  /\ rConsole' = ConsoleNewer(rConsole)
  /\ UNCHANGED <<surface, app, editor, pyConsole, submits, runCalls, lastCall, since>>
  /\ UNCHANGED hookVars

PyConsoleShown == UseConsole /\ app.language = "python"

\* onChange of the input of the ConsolePanel of PythonRightPanel.
PyConsoleChange(value) ==
  /\ PyConsoleShown
  /\ pyConsole' = [pyConsole EXCEPT !.inputValue = value]
  /\ UNCHANGED <<surface, app, editor, rConsole, submits, runCalls, lastCall, since>>
  /\ UNCHANGED hookVars

\* handleKeyDown of the ConsolePanel of PythonRightPanel.
PyConsoleKeyEnter(c) ==
  IF trim(c.inputValue) = << >> THEN c ELSE [c EXCEPT !.inputValue = << >>]

PyConsoleEnterCalls(c) ==
  IF trim(c.inputValue) = << >> THEN << >> ELSE <<Call("python", c.inputValue)>>

PyConsoleEnter ==
  /\ PyConsoleShown
  /\ submits < MaxSubmits
  /\ pyConsole' = PyConsoleKeyEnter(pyConsole)
  /\ Submitted(PyConsoleEnterCalls(pyConsole))
  /\ UNCHANGED <<surface, app, editor, rConsole>>
  /\ UNCHANGED hookVars

\* ---------------------------------------------------------- specifications
InitSteps(ids) ==
  \E i \in ids :
    \/ PyInitCall(i) \/ PyLoadPyodide(i) \/ PyLoadPackage(i) \/ PyInitUpdateEnv(i)
    \/ RInitCall(i) \/ RWebRInit(i) \/ RNewShelter(i) \/ RShimInstall(i)
    \/ RCanvas(i) \/ RInitUpdateEnv(i)

RunCalls(slots, limit, programs) ==
  /\ calls < limit
  /\ \E p \in slots, code \in programs :
       \/ \E interactive \in BOOLEAN : PyRunCall(p, code, interactive)
       \/ RRunCall(p, code)

RunSteps ==
  \E p \in RunIds :
    \/ PyCloseAll(p) \/ PyExec(p) \/ PyCapture(p) \/ PyRunUpdateEnv(p)
    \/ RCaptureR(p) \/ RRunUpdateEnv(p)

Clears == clearPlots \/ clearTable \/ clearConsole

StreamSteps == \E type \in {"stdout", "stderr"} : RStreamChunk(type, "chunk")

\* One mount; runCode calls may overlap.
Next == InitSteps({1}) \/ RunCalls(RunIds, MaxCalls, Programs) \/ RunSteps \/ Clears \/ StreamSteps

Spec == Init /\ [][Next]_vars

\* One mount; each runCode call starts after the previous one resolved.
NextSeq == InitSteps({1}) \/ RunCalls({1}, MaxSeqCalls, Programs) \/ RunSteps \/ Clears \/ StreamSteps

SpecSeq == Init /\ [][NextSeq]_vars

ViewPrograms == {"frames"}

\* The mount effect has settled and no runCode or viewObjectByName call is in
\* flight.
Quiet ==
  /\ init[1].pc \in {"done", "failed"}
  /\ \A p \in RunIds : run[p].pc \in {"idle", "resolved"}
  /\ \A v \in ViewIds : view[v].pc = "idle"

ViewCalls ==
  /\ Quiet
  /\ \E v \in ViewIds :
       \/ \E name \in ViewNames : PyViewCall(v, name) \/ RViewObject(v, name)
       \/ \E name \in PlotNames : PyViewPlotCall(v, name)

ViewSteps == \E v \in ViewIds : PyViewSettle(v) \/ PyViewPlotSettle(v)

QuietClears == Quiet /\ Clears

QuietRunCalls == Quiet /\ RunCalls({1}, MaxViewCalls, ViewPrograms)

\* One mount, then runCode calls that bind tabular objects, viewObjectByName
\* calls and clears, one after the other.
NextView ==
  \/ InitSteps({1}) \/ QuietRunCalls \/ RunSteps
  \/ ViewCalls \/ ViewSteps \/ QuietClears

SpecView == Init /\ [][NextView]_vars

\* Programs that bind, unbind, and bind what the reflection cannot describe.
EnvPrograms == {"print", "unbind", "odd"}

QuietEnvCalls == Quiet /\ RunCalls({1}, MaxEnvCalls, EnvPrograms)

\* One mount, then runCode calls one after the other that change the set of
\* global bindings.
NextEnv == InitSteps({1}) \/ QuietEnvCalls \/ RunSteps

SpecEnv == Init /\ [][NextEnv]_vars

\* A program that opens two figures.
PlotPrograms == {"plot2"}

\* At most two runCode calls are in flight at once.
PlotSlots == {1, 2}

\* viewPlotByName is called from the environment pane, for a binding that a
\* capture left behind.
PlotViewCalls ==
  /\ views < MaxPlotViews
  /\ "fig" \in globals
  /\ \E v \in ViewIds : PyViewPlotCall(v, "fig")

PlotViewSteps == \E v \in ViewIds : PyViewPlotSettle(v)

\* One mount; script and interactive runCode calls that draw, viewPlotByName
\* calls and clearPlots calls, overlapping in any way.
NextPlots ==
  \/ InitSteps({1}) \/ RunCalls(PlotSlots, MaxPlotCalls, PlotPrograms) \/ RunSteps
  \/ PlotViewCalls \/ PlotViewSteps \/ clearPlots

SpecPlots == Init /\ [][NextPlots]_vars

EditorSteps ==
  \/ EditorMount \/ EditorRunButton \/ EditorCtrlEnter
  \/ EditorUpArrow \/ EditorDownArrow
  \/ \E value \in EditorTexts : EditorChange(value)

ConsoleSteps ==
  \/ RConsoleEnter \/ RConsoleArrowUp \/ RConsoleArrowDown
  \/ PyConsoleEnter
  \/ \E value \in Texts : RConsoleChange(value) \/ PyConsoleChange(value)

LanguageSteps == \E language \in {"r", "python"} : setLanguage(language)

\* The session of one input: the editor, or the console of the language.
InitApp ==
  /\ backend \in {"python", "r"}
  /\ surface \in Surfaces
  /\ SessionInit
  /\ HookInit

\* One mount of the hooks, and the user at the editor or at the console.
NextApp == InitSteps({1}) \/ EditorSteps \/ ConsoleSteps \/ LanguageSteps

SpecApp == InitApp /\ [][NextApp]_vars

\* initialize re-entered; runCode calls at any point of the boot, with a
\* program that needs no package (the programs that draw and raise run under
\* Spec and SpecSeq).
BootPrograms == {"print"}

NextBoot == InitSteps(InitIds) \/ RunCalls({1}, MaxBootCalls, BootPrograms) \/ RunSteps

SpecBoot == Init /\ [][NextBoot]_vars

\* ------------------------------------------------------------------ claims
Booting(i) == init[i].pc \in {"loadPyodide", "loadPackage", "init", "shelter", "shim", "canvas"}

\* The module-level interpreter handle of the hook is set.
Initialized == IF backend = "python" THEN pyodide # 0 ELSE webR # 0

\* Run p's call resolves in this step.
Resolves(p) == run[p].pc = "updateEnv" /\ run'[p].pc = "resolved"

Images(ps) == [k \in 1..Len(ps) |-> ps[k].dataUrl]

\* The interpreter booted completely (the Python packages are loaded).
Healthy == backend = "python" => pkgs

\* C1: on an initialized backend the console never gets shorter from one step
\* to the next, except in a clearConsole step, which leaves it empty.
C1_ConsoleMonotone ==
  [][Initialized => (Len(consoleOutput') >= Len(consoleOutput)
                     \/ (clearConsole /\ Len(consoleOutput') = 0))]_vars

\* The console was cleared on an initialized backend, and a later runCode call
\* and its output have made it grow again.
C1_Witness ==
  /\ Initialized /\ clears > 0
  /\ Len(consoleOutput) >= 2
  /\ consoleOutput[1].type = "input" /\ consoleOutput[2].type = "stdout"

\* C2: whenever a runCode call that passed the guard resolves (on a completely
\* booted interpreter), it has performed both the plot-collection refresh and
\* the environment refresh, whether or not the user code raised.
C2_RefreshBeforeResolve ==
  [][\A p \in RunIds :
       (Resolves(p) /\ Healthy) => {"plots", "env"} \subseteq run'[p].refreshed]_vars

\* C3: when the interpreter call of a runCode call threw (on a completely
\* booted interpreter), the console holds a stderr line after that call's
\* input line by the time the call resolves (the console not having been
\* cleared meanwhile).
C3_FailureVisible ==
  [][\A p \in RunIds :
       (Resolves(p) /\ run[p].threw /\ Healthy /\ clears' = 0)
         => \E k, j \in 1..Len(consoleOutput') :
              /\ k < j
              /\ consoleOutput'[k] = Line("input", <<run[p].code>>)
              /\ consoleOutput'[j].type = "stderr"]_vars

\* C4: a runCode call made while the handle is unset or isLoading is true
\* changes nothing: no console line, no interpreter call, and the console,
\* environment, table and plots are as before.
C4_GuardedRunIsNoop ==
  [][(calls' = calls + 1 /\ (~Initialized \/ isLoading))
       => UNCHANGED <<consoleOutput, environment, tableData, plots, plotIdCounter,
                      pkgs, figs, globals, figSeq, run, isLoading>>]_vars

\* A call was made, and returned at the guard, while the boot was in flight.
C4_Witness == noops > 0 /\ calls = noops /\ isLoading /\ Initialized

\* C5: under any interleaving of initialize calls the runtime loader or
\* constructor is invoked at most once.
C5_SingleInstance == loaderCalls <= 1

\* C6: the step in which an initialize call fails appends the stderr line
\* carrying the failure message and clears isLoading; and once a boot has
\* failed and no initialize call is in flight, isLoading is false.
C6_BootFailureReported ==
  /\ [][\A i \in InitIds :
          (init[i].pc # "failed" /\ init'[i].pc = "failed")
            => /\ \E msg \in ErrMsgs :
                    consoleOutput' = Append(consoleOutput, InitFailLine(msg))
               /\ isLoading' = FALSE]_vars
  /\ []((/\ \E i \in InitIds : init[i].pc = "failed"
         /\ \A i \in InitIds : ~Booting(i))
        => ~isLoading)

\* A boot failed after the handle was set, and the failure line is the last one.
C6_Witness ==
  /\ \E i \in InitIds : init[i].pc = "failed"
  /\ Initialized /\ ~isLoading
  /\ consoleOutput # << >>
  /\ consoleOutput[Len(consoleOutput)] \in {InitFailLine(msg) : msg \in ErrMsgs}

\* C7: isLoading is never false while a boot is still in progress.
C7_LoadingUntilBooted == (\E i \in InitIds : Booting(i)) => isLoading

\* The figures a script run of `code` leaves open when it starts with none.
Produced(code) == NewFigs(code) + (IF Redraws(code) /\ NewFigs(code) = 0 THEN 1 ELSE 0)

\* C8: with runCode calls made one after the other, the step in which a
\* script run captures its plots appends to the collection exactly the
\* figures that run produced, once each and in the order they were made.
C8_ScriptPlotsConcatenate ==
  [][\A p \in RunIds :
       (/\ run[p].pc \in {"capture", "captureR"}
        /\ run'[p].pc = "updateEnv"
        /\ "plots" \in run'[p].refreshed
        /\ ~run[p].interactive)
         => /\ Len(plots') = Len(plots) + Produced(run[p].code)
            /\ SubSeq(plots', 1, Len(plots)) = plots
            /\ \A k \in 1..Produced(run[p].code) :
                 plots'[Len(plots) + k].dataUrl.uid
                   = figSeq' - Produced(run[p].code) + k
            /\ \A j, k \in 1..Len(plots') :
                 j # k => /\ plots'[j].id # plots'[k].id
                          /\ plots'[j].dataUrl.uid # plots'[k].dataUrl.uid]_vars

\* A script producing two plots, then a script producing one: three records,
\* in submission order.
C8_Witness ==
  /\ calls = 2 /\ noops = 0 /\ clears = 0
  /\ run[1].code = "redraw" /\ ~run[1].interactive /\ "plots" \in run[1].refreshed
  /\ Len(plots) = 3
  /\ \A k \in 1..3 : plots[k].dataUrl.uid = k

\* C9: the step in which an interactive Python run captures its plots leaves
\* the collection with exactly one record per open figure, in figure order,
\* whatever it held before.
C9_InteractiveReplaces ==
  [][\A p \in RunIds :
       (/\ backend = "python"
        /\ run[p].pc = "capture" /\ run'[p].pc = "updateEnv"
        /\ "plots" \in run'[p].refreshed
        /\ run[p].interactive)
         => Images(plots') = figs']_vars

\* The same figure redrawn by two interactive calls: still one record.
C9_Witness ==
  /\ backend = "python" /\ calls = 2 /\ noops = 0
  /\ run[1].interactive /\ run[1].code = "redraw" /\ "plots" \in run[1].refreshed
  /\ Len(plots) = 1 /\ plots[1].dataUrl.ver = 2

\* C10: once a script run on the Python backend has resolved, no figure is
\* left open in the interpreter.
C10_FiguresClosedAfterScript ==
  \A p \in RunIds :
    (backend = "python" /\ run[p].pc = "resolved" /\ ~run[p].interactive)
      => figs = << >>

\* A character of the name lies outside the backend's identifier alphabet:
\* letters, digits and underscore, and for R also the dot.
WordChars == Letters \cup Digits \cup {"_"}

ForeignChar(name, class) == \E k \in 1..Len(Chars(name)) : Chars(name)[k] \notin class

BadName(name) ==
  ForeignChar(name, IF backend = "r" THEN WordChars \cup {"."} ELSE WordChars)

\* This step is viewObjectByName(name) up to its first await.
ViewCall(v, name) == PyViewCall(v, name) \/ RViewObject(v, name)

\* This step appends exactly one console line, a stderr line.
OneStderrAppended ==
  /\ Len(consoleOutput') = Len(consoleOutput) + 1
  /\ SubSeq(consoleOutput', 1, Len(consoleOutput)) = consoleOutput
  /\ consoleOutput'[Len(consoleOutput')].type = "stderr"

\* C11: viewObject with a name outside the identifier pattern appends exactly
\* one stderr line and leaves the table snapshot, the environment and the
\* plots as they were, whatever the table snapshot was.
C11_InvalidNameRejected ==
  [][\A v \in ViewIds, name \in ViewNames :
       (ViewCall(v, name) /\ BadName(name))
         => (OneStderrAppended /\ UNCHANGED <<tableData, environment, plots>>)]_vars

\* A table is shown and the last call, with "bad name!", was rejected.
C11_Witness ==
  /\ tableData # << >>
  /\ "columns" \in DOMAIN tableData[1]
  /\ views = 2
  /\ consoleOutput # << >>
  /\ consoleOutput[Len(consoleOutput)].type = "stderr"
  /\ consoleOutput[Len(consoleOutput)].message[2] = "bad name!"

\* C12: a viewObject / viewPlotByName call is awaiting the interpreter only
\* with a name made of letters, digits and underscore (the R viewObject never
\* calls the interpreter).
C12_OnlyIdentifiersReachInterpreter ==
  \A v \in ViewIds :
    view[v].pc \in {"json", "png"}
      => /\ backend = "python"
         /\ Len(Chars(view[v].name)) > 0
         /\ ~ForeignChar(view[v].name, WordChars)

\* A name was rejected and the next call, with "df", is at the interpreter.
C12_Witness ==
  /\ views = 2
  /\ view[2] = [pc |-> "json", name |-> "df"]
  /\ consoleOutput # << >>
  /\ consoleOutput[Len(consoleOutput)].type = "stderr"
  /\ consoleOutput[Len(consoleOutput)].message[2] \in {"bad name!", "my.df"}

\* The name is bound, in the interpreter, to a tabular object.
Tabular(name) == name \in globals \cap FrameNames

\* The name matches the backend's identifier pattern.
ValidName(name) == Len(Chars(name)) > 0 /\ ~BadName(name)

\* C13: viewObject with a valid name that is unbound or bound to something
\* not tabular appends a stderr line and leaves the table snapshot as it was.
C13_MissingObjectReported ==
  [][\A v \in ViewIds :
       /\ \A name \in ViewNames :
            (RViewObject(v, name) /\ ValidName(name) /\ ~Tabular(name))
              => (OneStderrAppended /\ UNCHANGED tableData)
       /\ (PyViewSettle(v) /\ ~Tabular(view[v].name))
            => (OneStderrAppended /\ UNCHANGED tableData)]_vars

\* Table t shows frame F of the given name: columns "#" then F's, F's rows
\* in order, each mapping "#" to its index label and each column to its cell.
ShowsFrame(t, name, F) ==
  /\ DOMAIN t = {"name", "columns", "data"}
  /\ t.name = name
  /\ t.columns = <<"#">> \o F.columns
  /\ Len(t.data) = Len(F.data)
  /\ \A i \in 1..Len(F.data) :
       /\ "#" \in DOMAIN t.data[i]
       /\ t.data[i]["#"] = F.index[i]
       /\ \A j \in 1..Len(F.columns) : t.data[i][F.columns[j]] = F.data[i][j]

\* C14: viewObject on a tabular binding sets the table snapshot to the name,
\* the columns "#" followed by the object's, and its rows in source order
\* with "#" the source index and every cell under its column; both backends.
C14_TableSnapshotOfFrame ==
  [][\A v \in ViewIds, name \in FrameNames :
       (/\ RViewObject(v, name) \/ (PyViewSettle(v) /\ view[v].name = name)
        /\ Tabular(name))
         => /\ tableData' # << >>
            /\ ShowsFrame(tableData'[1], name, Frame(name))]_vars

\* C15: whenever a table snapshot exists its columns are pairwise different
\* and every row has exactly one value per listed column.
C15_TableColumnsUnique ==
  (tableData # << >> /\ "columns" \in DOMAIN tableData[1]) =>
    LET t == tableData[1]
    IN  /\ "data" \in DOMAIN t
        /\ \A j, k \in 1..Len(t.columns) : j # k => t.columns[j] # t.columns[k]
        /\ \A i \in 1..Len(t.data) :
             DOMAIN t.data[i] = {t.columns[j] : j \in 1..Len(t.columns)}

\* C16: each clear empties its own collection and leaves the other two
\* collections, the environment snapshot and isLoading as they were.
C16_ClearsOnlyOwnCollection ==
  [][/\ clearConsole => (consoleOutput' = << >>
                           /\ UNCHANGED <<tableData, plots, environment, isLoading>>)
     /\ clearTable => (tableData' = << >>
                         /\ UNCHANGED <<consoleOutput, plots, environment, isLoading>>)
     /\ clearPlots => (plots' = << >>
                         /\ UNCHANGED <<consoleOutput, tableData, environment, isLoading>>)]_vars

\* The R table that was shown has been cleared; console, plots and
\* environment still hold what the run left.
C16_Witness ==
  /\ backend = "r" /\ views = 1 /\ clears = 1
  /\ tableData = << >>
  /\ plots # << >>
  /\ DOMAIN environment # {}
  /\ consoleOutput # << >>
  /\ \A k \in 1..Len(consoleOutput) : consoleOutput[k].type # "stderr"

\* The buffer of the input the behaviour uses, and the history behind it (the
\* ConsolePanel of PythonRightPanel keeps none).
Buffer ==
  IF UseEditor THEN app.editorCode
  ELSE IF app.language = "r" THEN rConsole.inputValue ELSE pyConsole.inputValue

History == IF UseEditor THEN app.commandHistory ELSE rConsole.commandHistory

Cursor == IF UseEditor THEN app.historyIndex ELSE rConsole.historyIndex

Draft == IF UseEditor THEN app.tempUserCode ELSE rConsole.tempUserCode

Blank(text) == trim(text) = << >>

\* The step is a submit attempt: the Run button, the run key binding of the
\* editor, or Enter in a console input.
SubmitStep == submits' = submits + 1

\* C17: a submit of a buffer that is empty or only whitespace, from the editor
\* or from either console input, leaves the command history unchanged and
\* calls no backend's runCode.
C17_BlankSubmitIsNoOp ==
  [][(SubmitStep /\ Blank(Buffer)) => (History' = History /\ runCalls' = runCalls)]_vars

NoDuplicates(history) ==
  \A i, j \in DOMAIN history : history[i] = history[j] => i = j

Entries(history) == {history[i] : i \in DOMAIN history}

Position(history, c) == CHOOSE i \in DOMAIN history : history[i] = c

\* The input keeps a command history: the editor and the R console do.
KeepsHistory == UseEditor \/ app.language = "r"

\* The step is a submit that called runCode.
RanStep == SubmitStep /\ runCalls' = runCalls + 1

\* The entries of `before` other than `front` are the entries of `after` behind
\* its first one, in the same order.
MovedToFront(before, after, front) ==
  /\ after # << >> /\ after[1] = front
  /\ Entries(after) = Entries(before) \cup {front}
  /\ \A x, y \in Entries(before) \ {front} :
       Position(before, x) < Position(before, y) <=> Position(after, x) < Position(after, y)

\* C18: after any sequence of submits the command history has no duplicate
\* entry, its first entry is the command submitted last, it is no longer than
\* the number of distinct commands submitted since it was last emptied, and a
\* submit moves its command to the front and keeps the order of the others
\* (in the editor and in the R console, the two inputs that keep a history).
C18_HistoryDeduplicated ==
  /\ [](/\ NoDuplicates(History)
        /\ Len(History) <= Cardinality(since)
        /\ History # << >> => (lastCall # << >> /\ History[1] = lastCall[1].code))
  /\ [][(KeepsHistory /\ RanStep) => MovedToFront(History, History', lastCall'[1].code)]_vars

\* A command of the history was submitted again, behind two others.
C18_Witness ==
  /\ UseConsole
  /\ runCalls = 4
  /\ Cardinality(since) = 3
  /\ rConsole.commandHistory = <<<<"a">>, <<"c">>, <<"b">>>>

\* C19: on every submit path, a submit of a non-blank buffer hands runCode
\* exactly the buffer without its leading and trailing whitespace, sets the
\* history cursor to none and empties the draft.
C19_SubmitHandsTrimmedBuffer ==
  [][(SubmitStep /\ ~Blank(Buffer))
       => /\ RanStep
          /\ lastCall'[1].code = trim(Buffer)
          /\ Cursor' = -1
          /\ Draft' = << >>]_vars

\* k presses of ArrowUp, then of ArrowDown, in the R console input.
RECURSIVE ConsoleOlderTimes(_, _)
ConsoleOlderTimes(c, k) == IF k = 0 THEN c ELSE ConsoleOlderTimes(ConsoleOlder(c), k - 1)

RECURSIVE ConsoleNewerTimes(_, _)
ConsoleNewerTimes(c, k) == IF k = 0 THEN c ELSE ConsoleNewerTimes(ConsoleNewer(c), k - 1)

\* k presses of UpArrow on the first line, then of DownArrow on the last
\* line, in the editor whose handlers are those of the render `s`.
RECURSIVE EditorOlderTimes(_, _, _)
EditorOlderTimes(a, s, k) == IF k = 0 THEN a ELSE EditorOlderTimes(EditorOlder(a, s), s, k - 1)

RECURSIVE EditorNewerTimes(_, _, _)
EditorNewerTimes(a, s, k) == IF k = 0 THEN a ELSE EditorNewerTimes(EditorNewer(a, s), s, k - 1)

ConsoleRoundTrip(c, k) ==
  LET d == ConsoleNewerTimes(ConsoleOlderTimes(c, k), k) IN
  /\ d.inputValue = c.inputValue
  /\ d.historyIndex = -1
  /\ d.commandHistory = c.commandHistory

EditorRoundTrip(a, s, k) ==
  LET d == EditorNewerTimes(EditorOlderTimes(a, s, k), s, k) IN
  /\ d.editorCode = a.editorCode
  /\ d.historyIndex = -1
  /\ d.commandHistory = a.commandHistory

\* The input has a history to recall from and the cursor is at none.
CanRecall ==
  /\ Cursor = -1
  /\ History # << >>
  /\ IF UseEditor THEN editor # << >> ELSE app.language = "r"

EditStep ==
  \/ \E value \in EditorTexts : EditorChange(value)
  \/ \E value \in Texts : RConsoleChange(value)

\* C21: an edit of the buffer other than history navigation sets the history
\* cursor to none and leaves the command history exactly as it was.
C21_EditKeepsHistory ==
  [][EditStep => (Cursor' = -1 /\ History' = History)]_vars

OtherLanguage(language) == IF language = "r" THEN "python" ELSE "r"

\* The states of App after at most n edits of the buffer, from a state of S.
RECURSIVE Edited(_, _)
Edited(S, n) ==
  IF n = 0 THEN S
  ELSE Edited(S \cup {EditorChanged(a, value) : a \in S, value \in EditorTexts}, n - 1)

SessionReset(a) ==
  a.commandHistory = << >> /\ a.historyIndex = -1 /\ a.tempUserCode = << >>

RefreshStep ==
  \/ \E i \in InitIds : PyInitUpdateEnv(i) \/ RInitUpdateEnv(i)
  \/ \E p \in RunIds : PyRunUpdateEnv(p) \/ RRunUpdateEnv(p)

\* What the reflection of this refresh reports to JavaScript.
Reported == IF backend = "python" THEN PyReflect(globals) ELSE RReflect(globals)

\* C23: after a successful environment refresh the snapshot is exactly the
\* set of bindings reported in that refresh; a refresh that failed leaves the
\* snapshot as it was (the R refresh does not fail once WebR is constructed).
C23_EnvironmentReplaced ==
  [][RefreshStep =>
       IF backend = "r" /\ webR # 0
       THEN environment' = Reported
       ELSE environment' \in {environment, Reported}]_vars

\* A run unbound "x" after an earlier run had bound it and printed, and the
\* refresh of its finally block gave a snapshot without "x".
C23_Witness ==
  /\ calls >= 2
  /\ run[1].code = "unbind" /\ run[1].pc = "resolved"
  /\ \E k \in DOMAIN consoleOutput : consoleOutput[k].type = "stdout"
  /\ environment # EmptyEnv
  /\ environment = Reported
  /\ "x" \notin DOMAIN environment

\* The interpreter of the hook can run the reflection.
CanReflect == IF backend = "python" THEN pyodide # 0 /\ pkgs ELSE webR # 0

\* The snapshot of the bindings the reflection can describe.
WellFormedSnapshot ==
  LET g == globals \ Unreflectable IN
  IF backend = "python" THEN PyReflect(g) ELSE [n \in g |-> REntry(n)]

\* C24: a refresh that meets a binding it cannot describe drops that entry
\* and still ingests every other entry of the same refresh, on both backends:
\* the snapshot equals the well-formed entries.
C24_MalformedEntrySkipped ==
  [][(RefreshStep /\ CanReflect /\ globals \cap Unreflectable # {})
       => environment' = WellFormedSnapshot]_vars

\* C25: a statement submitted from the Python console input is run in
\* interactive mode (its plot refresh replaces the plot collection); only the
\* editor's Run uses script mode.
C25_PythonConsoleIsInteractive ==
  [][(PyConsoleShown /\ RanStep) => IsInteractive(lastCall'[1])]_vars

\* The cursor is none, or it is an index of the history and the buffer is the
\* entry at that index.
CursorOnEntry(cursor, history, buffer) ==
  cursor = -1 \/ (0 <= cursor /\ cursor < Len(history) /\ buffer = At(history, cursor))

\* C26: in every reachable state the history cursor is none or a valid index
\* into the current command history, and then the buffer equals the entry at
\* that index, in the editor session and in the R console input.
C26_CursorOnEntry ==
  /\ CursorOnEntry(app.historyIndex, app.commandHistory, app.editorCode)
  /\ CursorOnEntry(rConsole.historyIndex, rConsole.commandHistory, rConsole.inputValue)

\* The R console shows the second of three entries, reached by two steps to
\* older entries.
C26_Witness ==
  /\ UseConsole
  /\ Len(rConsole.commandHistory) = 3
  /\ rConsole.historyIndex = 1
  /\ rConsole.inputValue = rConsole.commandHistory[2]

\* Some initialize call threw and its catch block appended the failure line.
BootFailed == \E i \in InitIds : init[i].pc = "failed"

\* C27: after a failed boot every later runCode call is a no-op: the call
\* returns at the guard and the user's code reaches no interpreter, on either
\* backend and whichever boot step threw.
C27_FailedBootBlocksRuns ==
  [][(BootFailed /\ calls' = calls + 1)
       => (noops' = noops + 1
           /\ UNCHANGED <<consoleOutput, environment, tableData, plots, globals, figs, run>>)]_vars

\* Two script runs were made, the second while the first was suspended, and
\* both have resolved without an exception; nothing else touched the plots.
TwoScriptRunsOverlapped ==
  /\ calls = 2 /\ noops = 0 /\ clears = 0
  /\ \A p \in {1, 2} : /\ run[p].pc = "resolved"
                       /\ ~run[p].interactive
                       /\ ~run[p].threw

\* The records of the plot collection that show figure u.
ShownAs(u) == {k \in DOMAIN plots : plots[k].dataUrl.uid = u}

\* C28: when two script runs on the Python backend overlap, the plot
\* collection after both have resolved holds each figure that either run
\* created exactly once.
C28_OverlapKeepsEachFigureOnce ==
  (backend = "python" /\ TwoScriptRunsOverlapped)
    => \A u \in 1..figSeq : Cardinality(ShownAs(u)) = 1

\* The active language changed in this step.
LanguageSwitched == app'.language # app.language

\* C29: a switch of the active language leaves the backend's console output,
\* environment snapshot, table snapshot, plot collection and isLoading exactly
\* as they were, whether the backend is the language left or the one entered.
C29_SwitchKeepsHookState ==
  [][LanguageSwitched
       => UNCHANGED <<consoleOutput, environment, tableData, plots, isLoading>>]_vars

\* The other language is active while the backend holds console output and
\* has finished loading.
C29_Witness ==
  /\ app.language = "python"
  /\ consoleOutput # << >>
  /\ ~isLoading

\* C30: the ids of the records of the plot collection are pairwise distinct
\* in every reachable state, whatever runs, viewPlotByName calls and
\* clearPlots calls came before and however they interleaved.
C30_PlotIdsDistinct ==
  \A j, k \in DOMAIN plots : j # k => plots[j].id # plots[k].id

\* Four records are shown after a clearPlots call, a viewPlotByName call and
\* two runCode calls that overlapped.
C30_Witness ==
  /\ Len(plots) >= 4
  /\ clears > 0 /\ views > 0
  /\ \A p \in {1, 2} : run[p].pc = "resolved"

====
